---- MODULE Spec2Model ----
(***************************************************************************)
(* The smart-home agent: src/src/agent.py (conversation state, device      *)
(* dependencies, instructions and tools) and the two routes of src/main.py *)
(* that drive it (/converse, /reset).                                      *)
(*                                                                         *)
(* Python's Optional values are modelled as sequences of length at most    *)
(* one: None is <<>> and a value v is <<v>>.  The raw JSON arguments of a   *)
(* tool call add one more level: a key that is missing from the object is  *)
(* <<>>, a key that is present carries <<x>> with x the Optional value.     *)
(* Floats only take the integral values the model needs (saturation 0, 1   *)
(* or 2; hue 0, 50 or 200), so they are modelled as integers.              *)
(***************************************************************************)
EXTENDS Integers, Sequences, FiniteSets, TLC

\* ------------------------------------------------------------------ bounds
\* Number of /converse requests served in one run of the process.
MaxTurns == 2
\* Number of tool calls the model asks for in one run of the process.
MaxToolCalls == 1

Turns == 1..MaxTurns

\* ------------------------------------------------------------ Optional
None == <<>>
Some(v) == <<v>>
Absent == <<>>
Given(x) == <<x>>

\* ------------------------------------------------------- LightStatus
\* Field(ge=.., le=.., default=..) of LightStatus
LevelGe == 0
LevelLe == 100
LevelDefault == 100
HueGe == 0
HueLe == 100
HueDefault == 0
SaturationGe == 0
SaturationLe == 1
SaturationDefault == 1

\* Mutant of NumberOk: the le= bound of the field is not enforced.
NumberOkNoLe(raw, ge, le) ==
    \/ raw = Absent
    \/ raw[1] = None
    \/ raw[1][1] >= ge

\* One numeric field of LightStatus against a raw value: a missing key and
\* null are accepted, a number must lie in [ge, le] (else pydantic raises
\* ValidationError).
NumberOk(raw, ge, le) ==
    \/ raw = Absent
    \/ raw[1] = None
    \/ raw[1][1] >= ge /\ raw[1][1] <= le

\* The validated field: a missing key takes the declared default, a key
\* that is present keeps its value (null stays null).
NumberField(raw, default) ==
    IF raw = Absent THEN Some(default) ELSE raw[1]

\* is_on: bool | None = Field(description=...): no default, so the key is
\* required; null is accepted.
IsOnOk(raw) == raw # Absent

\* LightStatus(**raw): the validated model, or ok = FALSE (ValidationError).
LightStatus(raw) ==
    IF /\ IsOnOk(raw.is_on)
       /\ NumberOk(raw.light_level, LevelGe, LevelLe)
       /\ NumberOk(raw.light_hue, HueGe, HueLe)
       /\ NumberOk(raw.light_saturation, SaturationGe, SaturationLe)
    THEN [ok               |-> TRUE,
          is_on            |-> raw.is_on[1],
          light_level      |-> NumberField(raw.light_level, LevelDefault),
          light_hue        |-> NumberField(raw.light_hue, HueDefault),
          light_saturation |-> NumberField(raw.light_saturation,
                                           SaturationDefault)]
    ELSE [ok |-> FALSE, is_on |-> None, light_level |-> None,
          light_hue |-> None, light_saturation |-> None]

\* A keyword argument passed to the LightStatus constructor.
Kw(v) == Given(Some(v))

\* ------------------------------------------------------------ devices
\* dirigera's Outlet.set_on / Light.set_light / set_light_level /
\* set_light_color as the tools use them: the attribute of the device takes
\* the value sent.
SetOn(outlet, v) == [outlet EXCEPT !.is_on = v]
SetLight(light, v) == [light EXCEPT !.is_on = v]
SetLightLevel(light, v) == [light EXCEPT !.light_level = v]
SetLightColor(light, h, s) ==
    [light EXCEPT !.color_hue = h, !.color_saturation = s]

\* DeviceDeps.desk_lamp_status
desk_lamp_status(deps) ==
    IF ~deps.has_dirigera THEN "off"
    ELSE IF deps.desk_lamp_outlet.is_on THEN "on" ELSE "off"

\* DeviceDeps.light_chain_status
light_chain_status(deps) ==
    IF ~deps.has_dirigera THEN "off"
    ELSE IF deps.light_chain_outlet.is_on THEN "on" ELSE "off"

\* DeviceDeps.room_lights_status: "off", or the fragment
\* "on, with color hue H, saturation S% and brightness B%." given by its
\* three formatted numbers, each in tenths (":.1f"): the hue, the saturation
\* times 100 and the brightness divided by 100.  Exact for the brightness
\* values of the model, which are multiples of ten.
room_lights_status(deps) ==
    IF ~deps.has_dirigera THEN <<"off">>
    ELSE IF deps.room_lights.is_on
         THEN <<"on", deps.room_lights.color_hue * 10,
                deps.room_lights.color_saturation * 100 * 10,
                deps.room_lights.light_level \div 10>>
         ELSE <<"off">>

\* get_available_devices: the three statuses embedded in the instructions.
get_available_devices(deps) ==
    [desk_lamp   |-> desk_lamp_status(deps),
     light_chain |-> light_chain_status(deps),
     room_lights |-> room_lights_status(deps)]

\* -------------------------------------------------------------- tools
\* A tool's effect: the dependencies after the call, the device calls it
\* issued in order, and what it hands back: "return" with a value, or
\* "raise" when constructing the readback LightStatus fails validation.
NoValue == [ok |-> TRUE, is_on |-> None, light_level |-> None,
            light_hue |-> None, light_saturation |-> None]

\* Mutant of toggle_desk_light: the outlet is switched without asking
\* has_dirigera.
toggle_desk_light_unguarded(deps, is_on) ==
    [deps    |-> [deps EXCEPT !.desk_lamp_outlet = SetOn(@, is_on)],
     calls   |-> <<<<"desk_lamp_outlet.set_on", is_on>>>>,
     outcome |-> "return", value |-> NoValue]

\* toggle_desk_light(ctx, is_on)
toggle_desk_light(deps, is_on) ==
    IF deps.has_dirigera
    THEN [deps   |-> [deps EXCEPT !.desk_lamp_outlet = SetOn(@, is_on)],
          calls  |-> <<<<"desk_lamp_outlet.set_on", is_on>>>>,
          outcome |-> "return", value |-> NoValue]
    ELSE [deps |-> deps, calls |-> <<>>, outcome |-> "return", value |-> NoValue]

\* Mutant of toggle_light_chain: the call goes to the desk lamp's outlet.
toggle_light_chain_desk(deps, is_on) ==
    IF deps.has_dirigera
    THEN [deps   |-> [deps EXCEPT !.desk_lamp_outlet = SetOn(@, is_on)],
          calls  |-> <<<<"light_chain_outlet.set_on", is_on>>>>,
          outcome |-> "return", value |-> NoValue]
    ELSE [deps |-> deps, calls |-> <<>>, outcome |-> "return", value |-> NoValue]

\* toggle_light_chain(ctx, is_on)
toggle_light_chain(deps, is_on) ==
    IF deps.has_dirigera
    THEN [deps   |-> [deps EXCEPT !.light_chain_outlet = SetOn(@, is_on)],
          calls  |-> <<<<"light_chain_outlet.set_on", is_on>>>>,
          outcome |-> "return", value |-> NoValue]
    ELSE [deps |-> deps, calls |-> <<>>, outcome |-> "return", value |-> NoValue]

\* toggle_room_lights(ctx, new_status), new_status a validated LightStatus.
\* The readback LightStatus(...) is validated like any other: a device
\* attribute outside the declared range makes the constructor raise.
toggle_room_lights(deps, new_status) ==
    IF deps.has_dirigera
    THEN LET l0 == deps.room_lights
             on == new_status.is_on # None
             l1 == IF on THEN SetLight(l0, new_status.is_on[1]) ELSE l0
             c1 == IF on THEN <<<<"room_lights.set_light", new_status.is_on[1]>>>>
                   ELSE <<>>
             lv == new_status.light_level # None
             l2 == IF lv THEN SetLightLevel(l1, new_status.light_level[1]) ELSE l1
             c2 == IF lv
                   THEN <<<<"room_lights.set_light_level",
                            new_status.light_level[1]>>>>
                   ELSE <<>>
             co == new_status.light_hue # None /\ new_status.light_saturation # None
             l3 == IF co
                   THEN SetLightColor(l2, new_status.light_hue[1],
                                      new_status.light_saturation[1])
                   ELSE l2
             c3 == IF co
                   THEN <<<<"room_lights.set_light_color",
                            new_status.light_hue[1],
                            new_status.light_saturation[1]>>>>
                   ELSE <<>>
             new_attributes == l3
             readback ==
                 LightStatus([is_on            |-> Kw(new_attributes.is_on),
                              light_level      |-> Kw(new_attributes.light_level),
                              light_hue        |-> Kw(new_attributes.color_hue),
                              light_saturation |-> Kw(new_attributes.color_saturation)])
         IN  [deps    |-> [deps EXCEPT !.room_lights = l3],
              calls   |-> c1 \o c2 \o c3,
              outcome |-> IF readback.ok THEN "return" ELSE "raise",
              value   |-> readback]
    ELSE [deps |-> deps, calls |-> <<>>, outcome |-> "return",
          value |-> LightStatus([is_on            |-> Kw(FALSE),
                                 light_level      |-> Absent,
                                 light_hue        |-> Absent,
                                 light_saturation |-> Absent])]

\* get_current_time(ctx): reads the clock, touches no device.
get_current_time(deps) ==
    [deps |-> deps, calls |-> <<>>, outcome |-> "return", value |-> NoValue]

\* --------------------------------------------------- gateway failures
\* What a device call that went through does to the handles: the setter
\* named in the call, applied to its device.
ApplyCall(deps, call) ==
    CASE call[1] = "desk_lamp_outlet.set_on"
            -> [deps EXCEPT !.desk_lamp_outlet = SetOn(@, call[2])]
      [] call[1] = "light_chain_outlet.set_on"
            -> [deps EXCEPT !.light_chain_outlet = SetOn(@, call[2])]
      [] call[1] = "room_lights.set_light"
            -> [deps EXCEPT !.room_lights = SetLight(@, call[2])]
      [] call[1] = "room_lights.set_light_level"
            -> [deps EXCEPT !.room_lights = SetLightLevel(@, call[2])]
      [] OTHER
            -> [deps EXCEPT !.room_lights = SetLightColor(@, call[2], call[3])]

RECURSIVE ApplyCalls(_, _)
ApplyCalls(deps, calls) ==
    IF calls = <<>> THEN deps
    ELSE ApplyCalls(ApplyCall(deps, Head(calls)), Tail(calls))

\* Mutant of Faulted: the device call that failed is issued a second time
\* before the tool gives up.
FaultedRetrying(deps, r, fault) ==
    IF fault = 0 THEN r
    ELSE [deps    |-> ApplyCalls(deps, SubSeq(r.calls, 1, fault - 1)),
          calls   |-> Append(SubSeq(r.calls, 1, fault), r.calls[fault]),
          outcome |-> "unavailable", value |-> NoValue]

\* Mutant of Faulted: the tool swallows the failure and goes on with the
\* device calls that follow.
FaultedContinues(deps, r, fault) ==
    IF fault = 0 THEN r
    ELSE [deps    |-> ApplyCalls(deps, SubSeq(r.calls, 1, fault - 1)
                                       \o SubSeq(r.calls, fault + 1, Len(r.calls))),
          calls   |-> r.calls,
          outcome |-> "unavailable", value |-> NoValue]

\* No tool catches an exception.  When the fault-th device call of a tool
\* raises (the gateway is unreachable), the calls before it have been
\* applied, the failing call has been issued without effect on the handle,
\* nothing after it runs (neither a later setter nor the readback) and the
\* exception leaves the tool.  r is what the tool does when no call fails;
\* fault = 0 means none does.
Faulted(deps, r, fault) ==
    IF fault = 0 THEN r
    ELSE [deps    |-> ApplyCalls(deps, SubSeq(r.calls, 1, fault - 1)),
          calls   |-> SubSeq(r.calls, 1, fault),
          outcome |-> "unavailable", value |-> NoValue]

\* ------------------------------------------------------------ inputs
Prompts == {"turn on the lamp", ""}
\* In normal mode the text of the prompt decides nothing the model keeps (a
\* message carries its role and its turn), so one prompt stands for all.
AgentPrompts == {"turn on the lamp"}
ToolNames == {"toggle_desk_light", "toggle_light_chain", "toggle_room_lights",
              "get_current_time"}
\* What the model may send for each key of new_status: the key left out,
\* null, a value inside the declared range or one outside it.
RawIsOn == {Absent, Given(None), Given(Some(TRUE)), Given(Some(FALSE))}
RawLevel == {Absent, Given(None), Given(Some(50)), Given(Some(150))}
RawHue == {Absent, Given(None), Given(Some(50)), Given(Some(200))}
RawSaturation == {Absent, Given(None), Given(Some(0)), Given(Some(2))}
NoArgs == [is_on |-> Absent, light_level |-> Absent, light_hue |-> Absent,
           light_saturation |-> Absent]

\* Attributes the hub may hold (brightness 0..100, hue 0..360,
\* saturation 0..1).
RoomLights ==
    [is_on : BOOLEAN, light_level : {50, 100}, color_hue : {0, 50, 200},
     color_saturation : {0, 1}]
Outlets == [is_on : BOOLEAN]
\* The room lights as the conversation model finds them at start-up: off,
\* at a hue above the range LightStatus accepts.
InitRoomLights ==
    [is_on : {FALSE}, light_level : {50}, color_hue : {200},
     color_saturation : {0}]

\* The new_status arguments the model sends within a conversation: is_on
\* alone, hue with everything else null, a full update, and a brightness
\* outside the declared range.
ModelUpdates ==
    {[NoArgs EXCEPT !.is_on = Kw(TRUE)],
     [is_on |-> Given(None), light_level |-> Given(None),
      light_hue |-> Kw(50), light_saturation |-> Given(None)],
     [is_on |-> Kw(FALSE), light_level |-> Kw(100), light_hue |-> Kw(50),
      light_saturation |-> Kw(1)],
     [NoArgs EXCEPT !.is_on = Kw(TRUE), !.light_level = Kw(150)]}

\* ------------------------------------------------------------- state
VARIABLES
    enable_agent,   \* agent.py:17, the echo-mode gate
    devices,        \* agent.py:110, DeviceDeps and the devices behind it
    all_messages,   \* agent.py:109, Conversation State
    pc,             \* per turn: its place in the turn state machine
    req,            \* per turn: AgentRequest.prompt
    history,        \* per turn: message_history handed to agent.run
    new_messages,   \* per turn: the messages agent.run has produced so far
    pending,        \* per turn: the tool the model asked for, while dispatching
    last,           \* the step just taken: operation, turn, the instructions
                    \* composed, tool arguments, device calls issued, the
                    \* tool's result and what the caller of run_agent received
    writer,         \* who wrote all_messages last (a turn or a reset), what a
                    \* turn wrote, whether a reset dropped a history,
                    \* whether it followed another reset, and the turns whose
                    \* messages some reset has cleared so far
    tool_calls,     \* how many tool calls the model has asked for so far
    at_start        \* per turn, while composing: the device statuses as they
                    \* were when run_agent was entered

vars == <<enable_agent, devices, all_messages, pc, req, history, new_messages,
          pending, last, writer, tool_calls, at_start>>

NoStatus == [desk_lamp |-> "", light_chain |-> "", room_lights |-> <<>>]
NoResponse == [kind |-> "none", text |-> ""]
Step(op, t, response) ==
    [op |-> op, turn |-> t, prompt |-> "", instructions |-> NoStatus,
     produced |-> 0, tool |-> "", raw |-> NoArgs, calls |-> <<>>,
     outcome |-> "", value |-> NoValue, fault |-> 0, response |-> response]

\* A message of the transcript: its kind and the turn that produced it.
NoWriter ==
    [by |-> "init", turn |-> 0, dropped |-> FALSE, repeated |-> FALSE,
     returned |-> <<>>, new |-> <<>>, cleared |-> {}]
Message(role, t) == [role |-> role, turn |-> t]
Messages(h) == IF h = None THEN <<>> ELSE h[1]
InFlight == {"ComposingPrompt", "AwaitingModel", "DispatchingTool"}
\* The turns that produced the messages of a history.
TurnsOf(h) == {Messages(h)[i].turn : i \in DOMAIN Messages(h)}

Init ==
    /\ enable_agent \in BOOLEAN
    /\ devices \in [has_dirigera : BOOLEAN,
                    desk_lamp_outlet : {[is_on |-> FALSE]},
                    light_chain_outlet : {[is_on |-> FALSE]},
                    room_lights : InitRoomLights]
    /\ all_messages = None
    /\ pc = [t \in Turns |-> "Idle"]
    /\ req = [t \in Turns |-> ""]
    /\ history = [t \in Turns |-> None]
    /\ new_messages = [t \in Turns |-> <<>>]
    /\ pending = [t \in Turns |-> ""]
    /\ last = Step("init", 0, NoResponse)
    /\ writer = NoWriter
    /\ tool_calls = 0
    /\ at_start = [t \in Turns |-> NoStatus]

\* The locals of a call of run_agent are gone once it has returned or raised.
Forget(f, t, initial) == [f EXCEPT ![t] = initial]

\* ------------------------------------------------------ run_agent
\* Requests are numbered in the order they arrive.
Arrives(t) == pc[t] = "Idle" /\ \A u \in Turns : u < t => pc[u] # "Idle"

\* Mutant of EchoResponse: the prompt handed back without the prefix.
EchoResponseNoPrefix(prompt) == prompt

\* run_agent, echo branch: return f"Echo: {req.prompt}"
EchoResponse(prompt) == "Echo: " \o prompt

run_agent_echo(t, prompt) ==
    /\ Arrives(t)
    /\ ~enable_agent
    /\ pc' = [pc EXCEPT ![t] = "Done"]
    /\ last' = [Step("echo", t, [kind |-> "text", text |-> EchoResponse(prompt)])
                    EXCEPT !.prompt = prompt]
    /\ UNCHANGED <<enable_agent, devices, all_messages, req, history,
                   new_messages, pending, writer, tool_calls,
                   at_start>>

\* Mutant of message_history: every run starts without a history.
message_history_none(current) == None

\* message_history=all_messages: the argument is evaluated when run_agent
\* makes the call, before agent.run first suspends.
message_history(current) == current

\* run_agent, normal branch up to the first suspension of agent.run
run_agent_start(t, prompt) ==
    /\ Arrives(t)
    /\ enable_agent
    /\ pc' = [pc EXCEPT ![t] = "ComposingPrompt"]
    /\ req' = [req EXCEPT ![t] = prompt]
    /\ history' = [history EXCEPT ![t] = message_history(all_messages)]
    /\ last' = [Step("start", t, NoResponse) EXCEPT !.prompt = prompt]
    /\ at_start' = [at_start EXCEPT ![t] = get_available_devices(devices)]
    /\ UNCHANGED <<enable_agent, devices, all_messages, new_messages, pending,
                   writer, tool_calls>>

\* Mutant of compose_prompt: the user prompt is stored in all_messages as
\* soon as the first request is built.
compose_prompt_storing(t) ==
    /\ pc[t] = "ComposingPrompt"
    /\ new_messages' = [new_messages EXCEPT ![t] = <<Message("user", t)>>]
    /\ all_messages' = Some(Append(Messages(all_messages), Message("user", t)))
    /\ pc' = [pc EXCEPT ![t] = "AwaitingModel"]
    /\ last' = [Step("compose", t, NoResponse) EXCEPT
                    !.instructions = get_available_devices(devices)]
    /\ at_start' = Forget(at_start, t, NoStatus)
    /\ UNCHANGED <<enable_agent, devices, req, history, pending, writer,
                   tool_calls>>

\* agent.run composes the instructions (get_available_devices) and sends the
\* first request: prior history, instructions and the user prompt.
compose_prompt(t) ==
    /\ pc[t] = "ComposingPrompt"
    /\ new_messages' = [new_messages EXCEPT ![t] = <<Message("user", t)>>]
    /\ pc' = [pc EXCEPT ![t] = "AwaitingModel"]
    /\ last' = [Step("compose", t, NoResponse) EXCEPT
                    !.instructions = get_available_devices(devices)]
    /\ at_start' = Forget(at_start, t, NoStatus)
    /\ UNCHANGED <<enable_agent, devices, all_messages, req, history, pending,
                   writer, tool_calls>>

\* The model answers with a tool call.
model_requests_tool(t, tool) ==
    /\ pc[t] = "AwaitingModel"
    /\ tool_calls < MaxToolCalls
    /\ tool_calls' = tool_calls + 1
    /\ new_messages' = [new_messages EXCEPT
                           ![t] = Append(@, Message("tool-call", t))]
    /\ pending' = [pending EXCEPT ![t] = tool]
    /\ pc' = [pc EXCEPT ![t] = "DispatchingTool"]
    /\ last' = Step("tool-call", t, NoResponse)
    /\ UNCHANGED <<enable_agent, devices, all_messages, req, history,
                   writer,
                   at_start>>

\* Every argument object a call of each tool may carry.
ToolArgs(tool) ==
    IF tool = "toggle_room_lights"
    THEN [is_on : RawIsOn, light_level : RawLevel, light_hue : RawHue,
          light_saturation : RawSaturation]
    ELSE IF tool = "get_current_time" THEN {NoArgs}
    ELSE {[NoArgs EXCEPT !.is_on = Kw(b)] : b \in BOOLEAN}

\* The arguments the model sends within a conversation.
ModelArgs(tool) ==
    IF tool = "toggle_room_lights" THEN ModelUpdates ELSE ToolArgs(tool)

\* The arguments are validated against the tool's signature before the tool
\* function is called.
ArgsOk(tool, raw) ==
    tool = "toggle_room_lights" => LightStatus(raw).ok

\* The tool function called with validated arguments.
call_tool(tool, deps, raw) ==
    CASE tool = "toggle_desk_light"  -> toggle_desk_light(deps, raw.is_on[1][1])
      [] tool = "toggle_light_chain" -> toggle_light_chain(deps, raw.is_on[1][1])
      [] tool = "toggle_room_lights" -> toggle_room_lights(deps, LightStatus(raw))
      [] OTHER                       -> get_current_time(deps)

\* Arguments that fail validation never reach the tool function: the error
\* goes back to the model as a retry prompt.
RunTool(tool, deps, raw) ==
    IF ArgsOk(tool, raw) THEN call_tool(tool, deps, raw)
    ELSE [deps |-> deps, calls |-> <<>>, outcome |-> "retry", value |-> NoValue]

\* agent.run dispatches the tool the model asked for, with the arguments
\* raw.  A tool that returns, or whose arguments were rejected, adds its
\* message to the transcript and the turn goes back to the model.  A tool
\* that raises a ValidationError either ends the turn with the exception
\* (caught = FALSE) or, where the agent library turns a ValidationError
\* raised inside a tool into a retry prompt, goes back to the model
\* (caught = TRUE).  A failed device call (fault > 0) leaves the tool,
\* agent.run and run_agent as an exception: the turn ends with the error.
dispatch(t, raw, caught, fault) ==
    /\ pc[t] = "DispatchingTool"
    /\ LET whole == RunTool(pending[t], devices, raw)
           r == Faulted(devices, whole, fault)
           back == r.outcome \in {"return", "retry"} \/ (r.outcome = "raise" /\ caught)
       IN  /\ fault \in 0..Len(whole.calls)
           /\ r.outcome \in {"return", "retry"} => caught
           /\ r.outcome = "unavailable" => ~caught
           /\ devices' = r.deps
           /\ last' = [Step("dispatch", t,
                             IF back THEN NoResponse
                             ELSE [kind |-> "error",
                                   text |-> IF r.outcome = "unavailable"
                                            THEN "DeviceUnavailable"
                                            ELSE "ValidationError"])
                       EXCEPT !.tool = pending[t], !.raw = raw,
                              !.calls = r.calls, !.outcome = r.outcome,
                              !.value = r.value, !.fault = fault]
           /\ pc' = [pc EXCEPT ![t] = IF back THEN "AwaitingModel" ELSE "Failed"]
           /\ new_messages' =
                 [new_messages EXCEPT
                     ![t] = IF back
                            THEN Append(@, Message(IF r.outcome = "return"
                                                   THEN "tool-return"
                                                   ELSE "retry-prompt", t))
                            ELSE <<>>]
           /\ req' = IF back THEN req ELSE Forget(req, t, "")
           /\ history' = IF back THEN history ELSE Forget(history, t, None)
    /\ pending' = [pending EXCEPT ![t] = ""]
    /\ UNCHANGED <<enable_agent, all_messages, writer, tool_calls,
                   at_start>>

\* The gateway calls of one tool call are at most three.
Faults == 0..3

dispatch_tool(t) ==
    \E raw \in ModelArgs(pending[t]), caught \in BOOLEAN, fault \in Faults :
        dispatch(t, raw, caught, fault)

\* result.all_messages(): the history the run was given, then its own messages.
result_all_messages(hist, new) == Some(Messages(hist) \o new)

\* The model answers with its final text: agent.run returns, and run_agent
\* stores result.all_messages() and returns result.output.
model_returns_final(t) ==
    /\ pc[t] = "AwaitingModel"
    /\ LET new == Append(new_messages[t], Message("assistant", t))
       IN  /\ all_messages' = result_all_messages(history[t], new)
           /\ writer' = [NoWriter EXCEPT
                            !.by = "turn", !.turn = t, !.new = new,
                            !.returned = Messages(result_all_messages(history[t], new)),
                            !.cleared = writer.cleared]
    /\ pc' = [pc EXCEPT ![t] = "Done"]
    /\ last' = [Step("final", t, [kind |-> "text", text |-> "final"])
                    EXCEPT !.produced = Len(new_messages[t]) + 1]
    /\ req' = Forget(req, t, "")
    /\ history' = Forget(history, t, None)
    /\ new_messages' = Forget(new_messages, t, <<>>)
    /\ UNCHANGED <<enable_agent, devices, pending, tool_calls,
                   at_start>>

\* Mutant of model_fails: the messages produced so far are stored before the
\* failure is raised.
model_fails_partial(t) ==
    /\ pc[t] = "AwaitingModel"
    /\ pc' = [pc EXCEPT ![t] = "Failed"]
    /\ all_messages' = result_all_messages(history[t], new_messages[t])
    /\ last' = [Step("model-error", t,
                     [kind |-> "error", text |-> "ModelServiceError"])
                    EXCEPT !.produced = Len(new_messages[t])]
    /\ req' = Forget(req, t, "")
    /\ history' = Forget(history, t, None)
    /\ new_messages' = Forget(new_messages, t, <<>>)
    /\ UNCHANGED <<enable_agent, devices, pending, writer, tool_calls,
                   at_start>>

\* The model call fails: the exception leaves agent.run and run_agent at the
\* await, before the assignment to all_messages.
model_fails(t) ==
    /\ pc[t] = "AwaitingModel"
    /\ pc' = [pc EXCEPT ![t] = "Failed"]
    /\ last' = [Step("model-error", t,
                     [kind |-> "error", text |-> "ModelServiceError"])
                    EXCEPT !.produced = Len(new_messages[t])]
    /\ req' = Forget(req, t, "")
    /\ history' = Forget(history, t, None)
    /\ new_messages' = Forget(new_messages, t, <<>>)
    /\ UNCHANGED <<enable_agent, devices, all_messages, pending, writer, tool_calls,
                   at_start>>

\* Mutant of cancel_turn: the messages produced so far are stored on the way
\* out.
cancel_turn_storing(t) ==
    /\ pc[t] \in InFlight
    /\ pc' = [pc EXCEPT ![t] = "Cancelled"]
    /\ all_messages' = result_all_messages(history[t], new_messages[t])
    /\ last' = [Step("cancel", t, [kind |-> "error", text |-> "CancelledError"])
                    EXCEPT !.produced = Len(new_messages[t])]
    /\ req' = Forget(req, t, "")
    /\ history' = Forget(history, t, None)
    /\ new_messages' = Forget(new_messages, t, <<>>)
    /\ pending' = Forget(pending, t, "")
    /\ at_start' = Forget(at_start, t, NoStatus)
    /\ UNCHANGED <<enable_agent, devices, writer, tool_calls>>

\* The task running run_agent is cancelled while it is suspended at
\* "await agent.run(...)": CancelledError is raised at the await, the
\* assignment to all_messages after it never runs, and nothing undoes the
\* device calls its tools have made.
cancel_turn(t) ==
    /\ pc[t] \in InFlight
    /\ pc' = [pc EXCEPT ![t] = "Cancelled"]
    /\ last' = [Step("cancel", t, [kind |-> "error", text |-> "CancelledError"])
                    EXCEPT !.produced = Len(new_messages[t])]
    /\ req' = Forget(req, t, "")
    /\ history' = Forget(history, t, None)
    /\ new_messages' = Forget(new_messages, t, <<>>)
    /\ pending' = Forget(pending, t, "")
    /\ at_start' = Forget(at_start, t, NoStatus)
    /\ UNCHANGED <<enable_agent, devices, all_messages, writer, tool_calls>>

\* Mutant of reset_agent: the assignment rebinds a local name, the global
\* all_messages keeps its value.
reset_agent_local ==
    /\ all_messages' = all_messages
    /\ writer' = [NoWriter EXCEPT
                     !.by = "reset",
                     !.dropped = \/ all_messages # None
                                 \/ writer.by = "reset" /\ writer.dropped,
                     !.repeated = (writer.by = "reset"),
                     !.cleared = writer.cleared \cup TurnsOf(all_messages)]
    /\ last' = Step("reset", 0, [kind |-> "text", text |-> "{'status': 'ok'}"])
    /\ UNCHANGED <<enable_agent, devices, pc, req, history, new_messages,
                   pending, tool_calls,
                   at_start>>

\* reset_agent: all_messages = None
reset_agent ==
    /\ all_messages' = None
    /\ writer' = [NoWriter EXCEPT
                     !.by = "reset",
                     !.dropped = \/ all_messages # None
                                 \/ writer.by = "reset" /\ writer.dropped,
                     !.repeated = (writer.by = "reset"),
                     !.cleared = writer.cleared \cup TurnsOf(all_messages)]
    /\ last' = Step("reset", 0, [kind |-> "text", text |-> "{'status': 'ok'}"])
    /\ UNCHANGED <<enable_agent, devices, pc, req, history, new_messages, pending, tool_calls,
                   at_start>>

Next ==
    \/ \E t \in Turns, p \in Prompts : run_agent_echo(t, p)
    \/ \E t \in Turns, p \in AgentPrompts : run_agent_start(t, p)
    \/ \E t \in Turns : compose_prompt(t)
    \/ \E t \in Turns, tool \in ToolNames : model_requests_tool(t, tool)
    \/ \E t \in Turns : dispatch_tool(t)
    \/ \E t \in Turns : model_returns_final(t)
    \/ \E t \in Turns : model_fails(t)
    \/ \E t \in Turns : cancel_turn(t)
    \/ reset_agent

Spec == Init /\ [][Next]_vars

\* ------------------------------------ a process that has served a turn
\* The same program later in its life, in the configuration the source
\* ships with (enable_dirigera = False): an earlier call of run_agent
\* (turn 0) has completed and left its transcript in all_messages.
PriorTranscript == <<Message("user", 0), Message("assistant", 0)>>

WarmInit ==
    /\ enable_agent \in BOOLEAN
    /\ devices \in [has_dirigera : {FALSE},
                    desk_lamp_outlet : {[is_on |-> FALSE]},
                    light_chain_outlet : {[is_on |-> FALSE]},
                    room_lights : InitRoomLights]
    /\ all_messages = result_all_messages(None, PriorTranscript)
    /\ pc = [t \in Turns |-> "Idle"]
    /\ req = [t \in Turns |-> ""]
    /\ history = [t \in Turns |-> None]
    /\ new_messages = [t \in Turns |-> <<>>]
    /\ pending = [t \in Turns |-> ""]
    /\ last = Step("init", 0, NoResponse)
    /\ writer = [NoWriter EXCEPT !.by = "turn", !.new = PriorTranscript,
                                 !.returned = PriorTranscript]
    /\ tool_calls = 0
    /\ at_start = [t \in Turns |-> NoStatus]

WarmSpec == WarmInit /\ [][Next]_vars

\* ------------------------------------------------- the tools alone
\* One dispatch from every device state with every argument object: a turn
\* stands at DispatchingTool, the model having asked for any of the tools.
ToolInit ==
    /\ enable_agent = TRUE
    /\ devices \in [has_dirigera : BOOLEAN, desk_lamp_outlet : Outlets,
                    light_chain_outlet : Outlets, room_lights : RoomLights]
    /\ all_messages = None
    /\ pc = [t \in Turns |-> IF t = 1 THEN "DispatchingTool" ELSE "Idle"]
    /\ req \in [Turns -> {""}]
    /\ history = [t \in Turns |-> None]
    /\ new_messages = [t \in Turns |->
                          IF t = 1 THEN <<Message("user", 1), Message("tool-call", 1)>>
                          ELSE <<>>]
    /\ pending \in {[t \in Turns |-> IF t = 1 THEN tool ELSE ""] : tool \in ToolNames}
    /\ last = Step("tool-call", 1, NoResponse)
    /\ writer = NoWriter
    /\ tool_calls = 1
    /\ at_start = [t \in Turns |-> NoStatus]

ToolNext ==
    \E t \in Turns, caught \in BOOLEAN, fault \in Faults :
        \E raw \in ToolArgs(pending[t]) : dispatch(t, raw, caught, fault)

ToolSpec == ToolInit /\ [][ToolNext]_vars


\* =============================================================== claims
IsPrefix(a, b) == Len(a) <= Len(b) /\ SubSeq(b, 1, Len(a)) = a
IsSuffix(a, b) ==
    Len(a) <= Len(b) /\ SubSeq(b, Len(b) - Len(a) + 1, Len(b)) = a
\* Turn t takes the step named: it starts, writes its transcript, fails at
\* the model, leaves the dispatch of a tool.
Starts(t) == pc[t] = "Idle" /\ pc'[t] = "ComposingPrompt"
Completes(t) == pc[t] = "AwaitingModel" /\ pc'[t] = "Done"
FailsAtModel(t) ==
    pc[t] = "AwaitingModel" /\ pc'[t] = "Failed"
Dispatches(t) ==
    pc[t] = "DispatchingTool" /\ pc'[t] \in {"AwaitingModel", "Failed"}
\* The messages of one complete turn, in order: the user prompt, tool calls
\* each followed by its return or retry prompt, the final answer.
CompleteTranscript(m, t) ==
    /\ Len(m) >= 2
    /\ \A i \in DOMAIN m : m[i].turn = t
    /\ m[1].role = "user"
    /\ m[Len(m)].role = "assistant"
    /\ \A i \in 2..(Len(m) - 1) :
          IF i % 2 = 0 THEN m[i].role = "tool-call"
          ELSE m[i].role \in {"tool-return", "retry-prompt"}
    /\ Len(m) % 2 = 0

\* C1: at most one turn at a time is between reading all_messages as its
\* prior history and writing its transcript back: the read-to-write intervals
\* of two run_agent calls never overlap.
C1_TurnsSerialized ==
    Cardinality({t \in Turns : pc[t] \in InFlight}) <= 1

\* C2: every write of all_messages by a completing turn has the previous
\* value of all_messages as a prefix, so the transcript of every turn completed
\* since the last reset is still contained in Conversation State.
C2_MonotonicGrowth ==
    [][\A t \in Turns :
          Completes(t) =>
              IsPrefix(Messages(all_messages), Messages(all_messages'))]_vars

\* C3: right after every reset_agent, whatever the history was and however
\* many resets came before, all_messages is None; and a turn that starts while
\* the reset is the last write of Conversation State hands no prior history to
\* the model.
C3_ResetClears ==
    /\ last.op = "reset" => all_messages = None
    /\ \A t \in Turns :
          (last.op = "start" /\ last.turn = t /\ writer.by = "reset")
              => history[t] = None

\* A history was dropped by a reset that followed another reset, and the next
\* turn has started with no prior history.
C3_Witness ==
    /\ last.op = "start"
    /\ writer.by = "reset" /\ writer.dropped /\ writer.repeated
    /\ history[last.turn] = None
    /\ \E u \in Turns : pc[u] = "Done"

\* C4: a turn that starts after another turn has completed, with no reset in
\* between, hands to the model as prior history exactly what that turn
\* returned: everything, ending with that turn's own user, tool and assistant
\* messages in order.
C4_SecondTurnHistory ==
    \A t \in Turns :
        (last.op = "start" /\ last.turn = t /\ writer.by = "turn")
            => /\ history[t] = Some(writer.returned)
               /\ IsSuffix(writer.new, writer.returned)
               /\ CompleteTranscript(writer.new, writer.turn)

\* The second of two sequential turns has started, no other turn is in
\* flight, and the first turn's transcript includes a tool round trip.
C4_Witness ==
    /\ last.op = "start" /\ last.turn = 2
    /\ writer.by = "turn" /\ writer.turn = 1
    /\ pc[1] = "Done"
    /\ Len(writer.new) = 4
    /\ history[2] = Some(writer.new)

\* C5: with the agent-enabled flag false, run_agent returns "Echo: " followed
\* by the prompt, no turn ever reaches the model (the flag is checked first),
\* and the call changes neither all_messages nor any device nor any other
\* turn's state.
C5_EchoMode ==
    /\ [](~enable_agent =>
            /\ \A t \in Turns : pc[t] \in {"Idle", "Done"}
            /\ tool_calls = 0
            /\ last.op = "echo" =>
                  last.response = [kind |-> "text",
                                   text |-> "Echo: " \o last.prompt])
    /\ [][\A t \in Turns :
            (~enable_agent /\ pc[t] = "Idle" /\ pc'[t] # "Idle") =>
                /\ pc'[t] = "Done"
                /\ last'.op = "echo"
                /\ UNCHANGED <<all_messages, devices, history, new_messages,
                               pending, writer, tool_calls>>]_vars

\* Echo mode has answered the prompt "turn on the lamp".
C5_Witness ==
    /\ ~enable_agent
    /\ last.op = "echo"
    /\ last.prompt = "turn on the lamp"
    /\ last.response.text = "Echo: turn on the lamp"
    /\ pc[last.turn] = "Done"

\* C6: a turn whose model call fails, before or after tool round trips,
\* leaves all_messages as it was (nothing of the turn is appended), its caller
\* receives the failure, and a turn that starts next is handed the unchanged
\* history.
C6_ModelErrorKeepsState ==
    [][/\ \A t \in Turns :
             FailsAtModel(t) =>
                 /\ all_messages' = all_messages
                 /\ writer' = writer
                 /\ last'.op = "model-error"
                 /\ last'.response = [kind |-> "error",
                                      text |-> "ModelServiceError"]
       /\ \A u \in Turns :
             (last.op = "model-error" /\ Starts(u)) =>
                 history'[u] = all_messages]_vars

\* A turn failed at the model after a tool round trip, a history from an
\* earlier turn being in place.
C6_Witness ==
    /\ last.op = "model-error"
    /\ last.produced >= 3
    /\ pc[last.turn] = "Failed"
    /\ all_messages # None

\* The caller supplied a value for this key of new_status: the key is there
\* and is not null.
Sets(raw) == raw # Absent /\ raw[1] # None
RoomLightsCall(step) == step.op = "dispatch" /\ step.tool = "toggle_room_lights"

\* C7: without a gateway no tool issues a device call or raises, whatever
\* its arguments, no device changes, toggle_room_lights returns is_on = false,
\* and the three status projections answer "off" whatever the devices hold.
C7_NoGatewayNoOp ==
    /\ [](~devices.has_dirigera =>
            /\ desk_lamp_status(devices) = "off"
            /\ light_chain_status(devices) = "off"
            /\ room_lights_status(devices) = <<"off">>
            /\ last.op = "dispatch" =>
                  /\ last.calls = <<>>
                  /\ last.outcome # "raise"
                  /\ (last.tool = "toggle_room_lights" /\ last.outcome = "return")
                        => last.value.is_on = Some(FALSE))
    /\ [][~devices.has_dirigera => devices' = devices]_vars

\* Without a gateway, toggle_room_lights({is_on: true}) has returned
\* is_on = false while the lamps themselves are on.
C7_Witness ==
    /\ ~devices.has_dirigera
    /\ RoomLightsCall(last)
    /\ last.raw = [NoArgs EXCEPT !.is_on = Kw(TRUE)]
    /\ last.outcome = "return"
    /\ last.value.is_on = Some(FALSE)
    /\ devices.desk_lamp_outlet.is_on /\ devices.light_chain_outlet.is_on
    /\ devices.room_lights.is_on

\* C8: on the no-gateway path the status toggle_room_lights returns has
\* is_on = false and light_level, light_hue and light_saturation unset (null),
\* for every update.
C8_NoGatewayStatusUnset ==
    (RoomLightsCall(last) /\ ~devices.has_dirigera /\ last.outcome = "return")
        => /\ last.value.is_on = Some(FALSE)
           /\ last.value.light_level = None
           /\ last.value.light_hue = None
           /\ last.value.light_saturation = None

\* C9: with the gateway present, an accepted update in which the caller sets
\* hue but not saturation, or saturation but not hue, leaves the hue and the
\* saturation of the room lights as they were.
C9_PartialPair ==
    [][\A t \in Turns :
          (/\ Dispatches(t)
           /\ devices.has_dirigera
           /\ RoomLightsCall(last')
           /\ last'.outcome # "retry"
           /\ Sets(last'.raw.light_hue) # Sets(last'.raw.light_saturation))
              => /\ devices'.room_lights.color_hue
                      = devices.room_lights.color_hue
                 /\ devices'.room_lights.color_saturation
                      = devices.room_lights.color_saturation]_vars

\* C10: with the gateway present, an accepted update changes no attribute of
\* the room lights whose field the caller did not supply: power without is_on,
\* brightness without light_level, hue without light_hue, saturation without
\* light_saturation.
C10_OnlySuppliedFields ==
    [][\A t \in Turns :
          (/\ Dispatches(t)
           /\ devices.has_dirigera
           /\ RoomLightsCall(last')
           /\ last'.outcome # "retry")
              => /\ ~Sets(last'.raw.is_on) =>
                       devices'.room_lights.is_on = devices.room_lights.is_on
                 /\ ~Sets(last'.raw.light_level) =>
                       devices'.room_lights.light_level
                           = devices.room_lights.light_level
                 /\ ~Sets(last'.raw.light_hue) =>
                       devices'.room_lights.color_hue
                           = devices.room_lights.color_hue
                 /\ ~Sets(last'.raw.light_saturation) =>
                       devices'.room_lights.color_saturation
                           = devices.room_lights.color_saturation]_vars

\* A key of new_status that carries a number outside [ge, le].
OutOfRange(raw, ge, le) == Sets(raw) /\ (raw[1][1] < ge \/ raw[1][1] > le)
AnyOutOfRange(raw) ==
    \/ OutOfRange(raw.light_level, 0, 100)
    \/ OutOfRange(raw.light_hue, 0, 100)
    \/ OutOfRange(raw.light_saturation, 0, 1)

C12_ReadbackEqualsDevice ==
    (/\ RoomLightsCall(last)
     /\ devices.has_dirigera
     /\ last.outcome \notin {"retry", "unavailable"})
        => /\ last.outcome = "return"
           /\ last.value.ok
           /\ last.value.is_on = Some(devices.room_lights.is_on)
           /\ last.value.light_level = Some(devices.room_lights.light_level)
           /\ last.value.light_hue = Some(devices.room_lights.color_hue)
           /\ last.value.light_saturation
                 = Some(devices.room_lights.color_saturation)

\* C13: a device call that fails is never retried.  When a gateway call
\* fails inside a tool, the turn ends with the error DeviceUnavailable,
\* Conversation State and the other turns are untouched, the failed turn
\* takes no further step (so its device operation is not invoked again),
\* every tool call invokes each device setter at most once, and a request
\* that arrives afterwards is still served.
C13_DeviceFailureNotRetried ==
    /\ [](\A u \in Turns :
            (last.op = "dispatch" /\ last.outcome = "unavailable"
                /\ Arrives(u) /\ enable_agent)
                => ENABLED run_agent_start(u, "turn on the lamp"))
    /\ [][\A t \in Turns :
             /\ Dispatches(t) =>
                   /\ \A i, j \in DOMAIN last'.calls :
                         i # j => last'.calls[i][1] # last'.calls[j][1]
                   /\ last'.outcome = "unavailable" =>
                         /\ pc'[t] = "Failed"
                         /\ last'.response
                               = [kind |-> "error", text |-> "DeviceUnavailable"]
                         /\ all_messages' = all_messages
                         /\ \A v \in Turns \ {t} : pc'[v] = pc[v]
             /\ pc[t] = "Failed" =>
                   /\ pc'[t] = "Failed"
                   /\ last'.op = "dispatch" => last'.turn # t]_vars

\* The second device call of a room-lights update failed: the turn has ended
\* with the error while another request has yet to arrive.
C13_Witness ==
    /\ RoomLightsCall(last)
    /\ last.outcome = "unavailable"
    /\ last.fault = 2
    /\ Len(last.calls) = 2
    /\ pc[last.turn] = "Failed"
    /\ last.response.text = "DeviceUnavailable"
    /\ \E u \in Turns : Arrives(u)

\* Turn t is cancelled while suspended inside agent.run.
Cancelled(t) == pc[t] \in InFlight /\ pc'[t] = "Cancelled"

\* C14: when a turn is cancelled while suspended in the model loop, the
\* devices keep every change its tool calls have made (the cancellation
\* itself changes no device) and Conversation State is what it was before
\* the cancellation: the cancelled turn writes nothing, then or later.
C14_CancelKeepsDevicesSkipsAppend ==
    [][\A t \in Turns :
          /\ Cancelled(t) =>
                /\ devices' = devices
                /\ all_messages' = all_messages
                /\ writer' = writer
          /\ pc[t] = "Cancelled" =>
                /\ pc'[t] = "Cancelled"
                /\ all_messages' # all_messages
                      => writer'.by = "reset" \/ writer'.turn # t]_vars

\* A turn switched the desk lamp on, received the tool's return and was then
\* cancelled while awaiting the model: the lamp is still on and nothing was
\* written to Conversation State.
C14_Witness ==
    /\ last.op = "cancel"
    /\ last.produced = 3
    /\ pc[last.turn] = "Cancelled"
    /\ devices.has_dirigera
    /\ devices.desk_lamp_outlet.is_on
    /\ all_messages = None
    /\ writer.by = "init"

\* Turn t builds its instructions and sends its first request.
Composes(t) == pc[t] = "ComposingPrompt" /\ pc'[t] = "AwaitingModel"

\* The statuses the instructions should name for the devices d.
StatusOf(d) ==
    [desk_lamp   |-> IF d.has_dirigera /\ d.desk_lamp_outlet.is_on
                     THEN "on" ELSE "off",
     light_chain |-> IF d.has_dirigera /\ d.light_chain_outlet.is_on
                     THEN "on" ELSE "off",
     room_lights |-> IF d.has_dirigera /\ d.room_lights.is_on
                     THEN <<"on", 10 * d.room_lights.color_hue,
                            1000 * d.room_lights.color_saturation,
                            d.room_lights.light_level \div 10>>
                     ELSE <<"off">>]

\* C15: the statuses named in the instructions of a turn are those of the
\* devices at the moment the turn started (so that every change applied
\* before the turn started, and nothing else, is reported).
C15_InstructionsAtStart ==
    [][\A t \in Turns :
          Composes(t) => last'.instructions = at_start[t]]_vars

\* What does hold: every turn builds its instructions anew, and the
\* statuses they name are those of the devices at the moment they are
\* built; they differ from the statuses at the start of the turn only when
\* another turn has started too.
InstructionsFresh ==
    [][\A t \in Turns :
          Composes(t) =>
              /\ devices' = devices
              /\ last'.instructions = StatusOf(devices)
              /\ at_start[t] # StatusOf(devices)
                    => \E u \in Turns \ {t} : pc[u] # "Idle"]_vars

\* Turn 1 switched the desk lamp on and completed; the instructions turn 2
\* has just built say the lamp is on.
InstructionsFresh_Witness ==
    /\ last.op = "compose"
    /\ last.turn = 2
    /\ pc[1] = "Done"
    /\ devices.desk_lamp_outlet.is_on
    /\ last.instructions.desk_lamp = "on"

\* C16: a reset is total even when a turn is in flight across it: no turn
\* that starts after a reset is handed, as prior history, a message that
\* was in Conversation State when that reset ran, whatever turns that
\* started before the reset have completed since.
C16_ResetTotal ==
    \A t \in Turns :
        (last.op = "start" /\ last.turn = t)
            => \A i \in DOMAIN Messages(history[t]) :
                  Messages(history[t])[i].turn \notin writer.cleared

\* The place of each room-lights setter in the order the specification
\* gives: on/off, brightness, colour.
Rank(op) ==
    CASE op = "room_lights.set_light"       -> 1
      [] op = "room_lights.set_light_level" -> 2
      [] op = "room_lights.set_light_color" -> 3
      [] OTHER                              -> 0
\* Argument k of the call of op among calls, or old when op was not called.
Applied(calls, op, k, old) ==
    IF \E i \in DOMAIN calls : calls[i][1] = op
    THEN calls[CHOOSE i \in DOMAIN calls : calls[i][1] = op][k]
    ELSE old

\* C17: toggle_room_lights issues its device calls in the order on/off,
\* brightness, colour.  The room lights end up with exactly what the calls
\* that went through have set; when a call fails, it is the last one issued
\* (nothing after it is attempted), the calls before it stay applied, and
\* the turn ends with the error without any readback.
C17_OrderAndPartialFailure ==
    [][\A t \in Turns :
          (/\ Dispatches(t)
           /\ RoomLightsCall(last')
           /\ devices.has_dirigera
           /\ last'.outcome # "retry")
              => LET calls == last'.calls
                     failed == last'.outcome = "unavailable"
                     through == IF failed THEN SubSeq(calls, 1, Len(calls) - 1)
                                ELSE calls
                     old == devices.room_lights
                 IN  /\ \A i, j \in DOMAIN calls :
                           i < j => Rank(calls[i][1]) < Rank(calls[j][1])
                     /\ \A i \in DOMAIN calls : Rank(calls[i][1]) > 0
                     /\ devices'.room_lights =
                           [is_on |-> Applied(through, "room_lights.set_light",
                                              2, old.is_on),
                            light_level |->
                                Applied(through, "room_lights.set_light_level",
                                        2, old.light_level),
                            color_hue |->
                                Applied(through, "room_lights.set_light_color",
                                        2, old.color_hue),
                            color_saturation |->
                                Applied(through, "room_lights.set_light_color",
                                        3, old.color_saturation)]
                     /\ failed <=> last'.fault > 0
                     /\ failed =>
                           /\ Len(calls) = last'.fault
                           /\ last'.value = NoValue
                           /\ pc'[t] = "Failed"
                           /\ last'.response.kind = "error"]_vars

\* A full update whose brightness call failed: the lights were switched on,
\* the brightness 50 asked for was not applied, the colour call was never
\* issued and the turn ended with the error.
C17_Witness ==
    /\ RoomLightsCall(last)
    /\ last.raw = [is_on |-> Kw(TRUE), light_level |-> Kw(50),
                   light_hue |-> Kw(50), light_saturation |-> Kw(0)]
    /\ last.fault = 2
    /\ last.calls = <<<<"room_lights.set_light", TRUE>>,
                      <<"room_lights.set_light_level", 50>>>>
    /\ last.outcome = "unavailable"
    /\ devices.room_lights.is_on
    /\ devices.room_lights.light_level = 100
    /\ devices.room_lights.color_hue = 200
    /\ pc[last.turn] = "Failed"

\* The model asks turn t for a tool.
RequestsTool(t) == pc[t] = "AwaitingModel" /\ pc'[t] = "DispatchingTool"

\* C18: Conversation State is written only when a turn reaches Done (or by
\* a reset), and once per successful turn: starting a turn, composing the
\* prompt, the model asking for a tool, dispatching a tool and a failing
\* model call leave all_messages as it is; the write at Done stores the
\* history the turn was given followed by the complete transcript of the
\* turn; and a turn that is Done stays Done, so it never writes again.
C18_WrittenOnlyAtDone ==
    [][/\ all_messages' # all_messages
            => last'.op = "reset" \/ \E t \in Turns : Completes(t)
       /\ \A t \in Turns :
            /\ (Starts(t) \/ Composes(t) \/ RequestsTool(t) \/ Dispatches(t)
                    \/ FailsAtModel(t))
                  => all_messages' = all_messages
            /\ Completes(t)
                  => LET new == Append(new_messages[t], Message("assistant", t))
                     IN  /\ CompleteTranscript(new, t)
                         /\ all_messages' = Some(Messages(history[t]) \o new)
                         /\ last'.produced = Len(new)
            /\ pc[t] = "Done" => pc'[t] = "Done"]_vars

\* A turn that called one tool has just completed: the four messages of its
\* transcript are what Conversation State holds.
C18_Witness ==
    /\ last.op = "final"
    /\ last.produced = 4
    /\ writer.by = "turn"
    /\ writer.turn = last.turn
    /\ all_messages = Some(writer.new)
    /\ Len(writer.new) = 4

\* C19: the devices change only inside the dispatch of one of the three
\* toggle tools.  A reset, the start of a turn, composing the instructions
\* (the three status projections), the echo path and every other step that
\* is not a dispatch leave all devices as they are; so does the dispatch of
\* get_current_time, which calls no device; toggle_desk_light changes at
\* most the power of the desk lamp's outlet and toggle_light_chain at most
\* the power of the light chain's outlet.
C19_DevicesChangeOnlyInDispatch ==
    [][/\ devices' # devices
            => \E t \in Turns :
                  /\ Dispatches(t)
                  /\ last'.tool \in {"toggle_desk_light", "toggle_light_chain",
                                     "toggle_room_lights"}
       /\ last'.op \in {"reset", "start", "compose", "echo"}
            => devices' = devices
       /\ \A t \in Turns :
            Dispatches(t) =>
                /\ last'.tool = "get_current_time"
                      => devices' = devices /\ last'.calls = <<>>
                /\ last'.tool = "toggle_desk_light"
                      => /\ devices'.light_chain_outlet = devices.light_chain_outlet
                         /\ devices'.room_lights = devices.room_lights
                         /\ devices'.has_dirigera = devices.has_dirigera
                         /\ \A i \in DOMAIN last'.calls :
                               last'.calls[i][1] = "desk_lamp_outlet.set_on"
                /\ last'.tool = "toggle_light_chain"
                      => /\ devices'.desk_lamp_outlet = devices.desk_lamp_outlet
                         /\ devices'.room_lights = devices.room_lights
                         /\ devices'.has_dirigera = devices.has_dirigera
                         /\ \A i \in DOMAIN last'.calls :
                               last'.calls[i][1] = "light_chain_outlet.set_on"]_vars

\* toggle_light_chain has just switched the light chain on: the chain is on
\* while the desk lamp and the room lights are as they were at start-up.
C19_Witness ==
    /\ last.op = "dispatch"
    /\ last.tool = "toggle_light_chain"
    /\ last.calls = <<<<"light_chain_outlet.set_on", TRUE>>>>
    /\ last.outcome = "return"
    /\ devices.light_chain_outlet.is_on
    /\ ~devices.desk_lamp_outlet.is_on
    /\ devices.room_lights \in InitRoomLights

====
